---------------------------- MODULE Spec2Model ----------------------------
(***************************************************************************)
(* The log-transport pipeline of src/wifi_logger.c: producers allocate a   *)
(* log record and hand it to a bounded FreeRTOS queue (send_to_queue), the *)
(* wifi_logger task drains the queue and passes each record to the         *)
(* transport (send_data), and system_log_message_route may be installed as *)
(* the platform's vprintf-like log sink.                                   *)
(*                                                                         *)
(* A record is identified by the serial number of its allocation.  Every   *)
(* task owns a call stack of frames [fn, pc, rec]; the top frame runs.     *)
(* ESP_LOGD statements are compiled out at the default log level and are   *)
(* not modelled; ESP_LOGI/W/E go through the installed log sink.           *)
(* Allocation failures (malloc, xTaskCreatePinnedToCore) are not modelled. *)
(* Tasks interleave freely: the model assumes no scheduling priority.      *)
(* generate_log_message is called only once the queue exists, and the hook *)
(* only once it is installed.                                              *)
(*                                                                         *)
(* Spec is the whole program.  FailSpec is the program with a transport    *)
(* whose every send fails, OverloadSpec the program under overload without *)
(* log routing, and CallSpec follows a single producer call with the       *)
(* lengths of its texts, its buffer and what it writes to the console.     *)
(***************************************************************************)
EXTENDS Integers, Sequences, FiniteSets

\* ---- bounds of the model ----
MESSAGE_QUEUE_SIZE == 2     \* capacity handed to xQueueCreate (a configuration value)
STACK_FRAMES == 2           \* frames a task stack holds before it overflows
MaxTimeouts == 1            \* receive timeouts explored

MaxRecords == 4             \* records allocated in a run
BUFFER_SIZE == 3            \* bytes of log_print_buffer (a configuration value)
MaxTextLen == 3             \* longest header and longest formatted message explored

\* the configured number of consecutive failed sends after which the
\* specification has the dispatch task stop calling the transport
DegradedThreshold == 2

\* ---- program constants ----
NULL == 0                   \* data = NULL / log_message == NULL
SendTicksToWait == 0        \* (TickType_t) 0/portTICK_PERIOD_MS

MAIN == "main"               \* the task that calls start_wifi_logger
APP == "app"                 \* another application task
DISP == "wifi_logger"        \* the wifi_logger task
Producers == {MAIN, APP}
Tasks == {MAIN, APP, DISP}
\* the most records the specification allows to be allocated and unreleased:
\* the queue's capacity, one per producer and one for the wifi_logger task
LeakBound == MESSAGE_QUEUE_SIZE + Cardinality(Producers) + 1
Ids == 1..(IF MaxRecords > LeakBound + 1 THEN MaxRecords ELSE LeakBound + 1)

VARIABLES
    cfgRoute,      \* CONFIG_ROUTE_ESP_IDF_API_LOGS_TO_WIFI is defined
    cfgAssert,     \* configASSERT aborts (FALSE: compiled out or print-and-continue)
    queueCreated,  \* wifi_logger_queue != NULL
    hook,          \* system_log_message_route is the platform's log sink
    queue,         \* contents of wifi_logger_queue, head first
    nextId,        \* serial number of the next allocation
    frees,         \* frees[r]: number of free() calls that hit record r
    stack,         \* stack[t]: call frames of task t, innermost last
    len,           \* wifi_logger's local len while in scope: result of the send
    halt,          \* "none" while the system runs, else why it stopped
    enq,           \* history: records accepted by the queue, in order
    sent,          \* history: records passed to the transport's send, in order
    errSends,      \* history: sends of the fixed error text in place of a record
    rejected,      \* history: records whose enqueue was rejected
    timeouts,      \* history: number of receive timeouts
    \* one producer call followed with its data (CallSpec):
    cPc,           \* position of the call, "idle" when no call is followed
    cPath,         \* "gen": generate_log_message, "hook": system_log_message_route
    cHdr,          \* length of the header "TAG (func:line) " (gen)
    cMsg,          \* length of the text that fmt and its arguments expand to
    cBuf,          \* bytes of log_print_buffer written so far, from its start
    cConsole,      \* what was written to the console, in order
    cRet           \* value returned by system_log_message_route

callVars == <<cPc, cPath, cHdr, cMsg, cBuf, cConsole, cRet>>

vars == <<cfgRoute, cfgAssert, queueCreated, hook, queue, nextId, frees,
          stack, len, halt, enq, sent, errSends, rejected, timeouts,
          cPc, cPath, cHdr, cMsg, cBuf, cConsole, cRet>>

\* ---- pure helpers ----
Range(s) == {s[i] : i \in 1..Len(s)}
Top(t) == stack[t][Len(stack[t])]
Running(t) == halt = "none" /\ stack[t] # <<>>
At(t, f, p) == Running(t) /\ Top(t).fn = f /\ Top(t).pc = p
Frame(f, p, r) == [fn |-> f, pc |-> p, rec |-> r]
Pop(s) == SubSeq(s, 1, Len(s) - 1)
SetTop(s, p, r) == [s EXCEPT ![Len(s)] = Frame(@.fn, p, r)]
SetPc(s, p) == SetTop(s, p, s[Len(s)].rec)
Allocated == 1..(nextId - 1)

\* xQueueSendToBack(wifi_logger_queue, &log_message, ticks)
MutantSendAlways(q, r) == [qerror |-> "pdPASS", q |-> Append(q, r)]
MutantSendOverwrite(q, r) ==
    IF Len(q) < MESSAGE_QUEUE_SIZE
    THEN [qerror |-> "pdPASS", q |-> Append(q, r)]
    ELSE [qerror |-> "errQUEUE_FULL", q |-> Append(Tail(q), r)]
xQueueSendToBack(q, r) ==
    IF Len(q) < MESSAGE_QUEUE_SIZE
    THEN [qerror |-> "pdPASS", q |-> Append(q, r)]
    ELSE [qerror |-> "errQUEUE_FULL", q |-> q]

\* whether xQueueSendToBack returns without waiting for space in the queue:
\* with xTicksToWait = 0 it always does
MutantSendBlocks(q) == Len(q) < MESSAGE_QUEUE_SIZE
QueueSendReturns(q) == Len(q) < MESSAGE_QUEUE_SIZE \/ SendTicksToWait = 0

\* xQueueReceive(wifi_logger_queue, &data, portMAX_DELAY) with a record present
MutantReceiveLast(q) == [data |-> q[Len(q)], q |-> SubSeq(q, 1, Len(q) - 1)]
xQueueReceive(q) == [data |-> Head(q), q |-> Tail(q)]

\* free(p): free(NULL) does nothing
free(h, p) == IF p = NULL THEN h ELSE [h EXCEPT ![p] = @ + 1]

\* no producer call is followed with its data
NoCall ==
    /\ cPc = "idle" /\ cPath = "none"
    /\ cHdr = 0 /\ cMsg = 0 /\ cBuf = 0
    /\ cConsole = <<>> /\ cRet = 0

Init ==
    /\ NoCall
    /\ cfgRoute \in BOOLEAN
    /\ cfgAssert \in BOOLEAN
    /\ queueCreated = FALSE
    /\ hook = FALSE
    /\ queue = <<>>
    /\ nextId = 1
    /\ frees = [r \in Ids |-> 0]
    /\ stack = [t \in Tasks |-> IF t = MAIN THEN <<Frame("start", "init_wifi", NULL)>>
                                ELSE <<>>]
    /\ len = 0
    /\ halt = "none"
    /\ enq = <<>>
    /\ sent = <<>>
    /\ errSends = 0
    /\ rejected = {}
    /\ timeouts = 0

\* ---- the platform's log call (ESP_LOGI / ESP_LOGW / ESP_LOGE) made by task t,
\* which continues at pc cont: esp_log_write hands the text to the installed sink.
\* With system_log_message_route installed the call enters the hook on t's own
\* stack (line 167 allocates its record); a full stack overflows.
EspLog(t, cont) ==
    IF ~hook
    THEN /\ stack' = [stack EXCEPT ![t] = SetPc(@, cont)]
         /\ UNCHANGED <<nextId, halt>>
    ELSE IF Len(stack[t]) >= STACK_FRAMES
    THEN /\ halt' = "stack_overflow"
         /\ UNCHANGED <<nextId, stack>>
    ELSE /\ nextId <= MaxRecords
         /\ stack' = [stack EXCEPT ![t] =
                         Append(SetPc(@, cont), Frame("hook", "enqueue", nextId))]
         /\ nextId' = nextId + 1
         /\ UNCHANGED halt

\* ---- start_wifi_logger, run by MAIN ----
init_wifi ==
    /\ At(MAIN, "start", "init_wifi")
    /\ \/ /\ stack' = [stack EXCEPT ![MAIN] = SetPc(@, "init_queue")]
          /\ UNCHANGED halt
       \/ /\ halt' = "boot_abort"          \* ESP_ERROR_CHECK in init_wifi
          /\ UNCHANGED stack
    /\ UNCHANGED callVars
    /\ UNCHANGED <<cfgRoute, cfgAssert, queueCreated, hook, queue, nextId, frees,
                   len, enq, sent, errSends, rejected, timeouts>>

\* a start_wifi_logger that goes on when init_queue returned ESP_FAIL
MutantInitQueueUnchecked ==
    /\ At(MAIN, "start", "init_queue")
    /\ queueCreated' \in BOOLEAN
    /\ queue' = <<>>
    /\ stack' = [stack EXCEPT ![MAIN] = SetPc(@, "set_vprintf")]
    /\ UNCHANGED callVars
    /\ UNCHANGED <<cfgRoute, cfgAssert, hook, nextId, frees,
                   len, halt, enq, sent, errSends, rejected, timeouts>>

init_queue ==
    /\ At(MAIN, "start", "init_queue")
    /\ \/ /\ queueCreated' = TRUE          \* xQueueCreate returned a queue
          /\ queue' = <<>>
          /\ stack' = [stack EXCEPT ![MAIN] = SetPc(@, "set_vprintf")]
          /\ UNCHANGED halt
       \/ /\ halt' = "boot_abort"          \* ESP_FAIL, ESP_ERROR_CHECK aborts
          /\ UNCHANGED <<queueCreated, queue, stack>>
    /\ UNCHANGED callVars
    /\ UNCHANGED <<cfgRoute, cfgAssert, hook, nextId, frees,
                   len, enq, sent, errSends, rejected, timeouts>>

esp_log_set_vprintf ==
    /\ At(MAIN, "start", "set_vprintf")
    /\ hook' = cfgRoute
    /\ stack' = [stack EXCEPT ![MAIN] = SetPc(@, "create_task")]
    /\ UNCHANGED callVars
    /\ UNCHANGED <<cfgRoute, cfgAssert, queueCreated, queue, nextId, frees,
                   len, halt, enq, sent, errSends, rejected, timeouts>>

xTaskCreatePinnedToCore ==
    /\ At(MAIN, "start", "create_task")
    /\ stack' = [stack EXCEPT ![MAIN] = SetPc(@, "log"),
                              ![DISP] = <<Frame("disp", "start", NULL)>>]
    /\ UNCHANGED callVars
    /\ UNCHANGED <<cfgRoute, cfgAssert, queueCreated, hook, queue, nextId, frees,
                   len, halt, enq, sent, errSends, rejected, timeouts>>

start_wifi_logger_log ==
    /\ At(MAIN, "start", "log")
    /\ EspLog(MAIN, "ret")
    /\ UNCHANGED callVars
    /\ UNCHANGED <<cfgRoute, cfgAssert, queueCreated, hook, queue, frees,
                   len, enq, sent, errSends, rejected, timeouts>>

\* a function returns to its caller
Return(t) ==
    /\ Running(t)
    /\ Top(t).pc = "ret"
    /\ stack' = [stack EXCEPT ![t] = Pop(@)]
    /\ UNCHANGED callVars
    /\ UNCHANGED <<cfgRoute, cfgAssert, queueCreated, hook, queue, nextId, frees,
                   len, halt, enq, sent, errSends, rejected, timeouts>>

\* ---- producers ----
\* generate_log_message up to the call of send_to_queue: the record is the
\* buffer malloc'd by generate_log_message_timestamp.
GenerateLogMessage(t, max) ==
    /\ halt = "none"
    /\ stack[t] = <<>>
    /\ queueCreated
    /\ nextId <= max
    /\ stack' = [stack EXCEPT ![t] = <<Frame("gen", "enqueue", nextId)>>]
    /\ nextId' = nextId + 1
    /\ UNCHANGED callVars
    /\ UNCHANGED <<cfgRoute, cfgAssert, queueCreated, hook, queue, frees,
                   len, halt, enq, sent, errSends, rejected, timeouts>>

generate_log_message(t) == GenerateLogMessage(t, MaxRecords)

\* an ESP_LOGx statement of application code, routed to system_log_message_route
system_log_message_route(t) ==
    /\ halt = "none"
    /\ stack[t] = <<>>
    /\ hook
    /\ nextId <= MaxRecords
    /\ stack' = [stack EXCEPT ![t] = <<Frame("hook", "enqueue", nextId)>>]
    /\ nextId' = nextId + 1
    /\ UNCHANGED callVars
    /\ UNCHANGED <<cfgRoute, cfgAssert, queueCreated, hook, queue, frees,
                   len, halt, enq, sent, errSends, rejected, timeouts>>

\* send_to_queue, line 46: the enqueue attempt of the frame on top of t's stack
send_to_queue(t) ==
    /\ Running(t)
    /\ Top(t).pc = "enqueue"
    /\ QueueSendReturns(queue)
    /\ LET r == Top(t).rec
           res == xQueueSendToBack(queue, r)
       IN /\ queue' = res.q
          /\ IF res.qerror = "pdPASS"
             THEN /\ enq' = Append(enq, r)
                  /\ UNCHANGED rejected
                  /\ stack' = [stack EXCEPT ![t] =
                                  IF Top(t).fn = "gen" THEN Pop(@) ELSE SetPc(@, "vprintf")]
             ELSE /\ rejected' = rejected \cup {r}
                  /\ UNCHANGED enq
                  /\ stack' = [stack EXCEPT ![t] = SetPc(@, "logfail")]
    /\ UNCHANGED callVars
    /\ UNCHANGED <<cfgRoute, cfgAssert, queueCreated, hook, nextId, frees,
                   len, halt, sent, errSends, timeouts>>

\* send_to_queue, lines 55-56: ESP_LOGE "Queue full", return ESP_FAIL; the
\* caller ignores the result and does not free its record
send_to_queue_full(t) ==
    /\ Running(t)
    /\ Top(t).pc = "logfail"
    /\ EspLog(t, IF Top(t).fn = "gen" THEN "ret" ELSE "vprintf")
    /\ UNCHANGED callVars
    /\ UNCHANGED <<cfgRoute, cfgAssert, queueCreated, hook, queue, frees,
                   len, enq, sent, errSends, rejected, timeouts>>

\* system_log_message_route, line 172: return vprintf(fmt, tag)
route_vprintf(t) ==
    /\ Running(t)
    /\ Top(t).pc = "vprintf"
    /\ stack' = [stack EXCEPT ![t] = Pop(@)]
    /\ UNCHANGED callVars
    /\ UNCHANGED <<cfgRoute, cfgAssert, queueCreated, hook, queue, nextId, frees,
                   len, halt, enq, sent, errSends, rejected, timeouts>>

\* ---- the wifi_logger task ----
\* what building and connecting the transport can come to
TransportOutcomes == {"connected", "connect_failed"}

\* lines 199-200: the transport handle is built and connected; nothing is
\* returned to wifi_logger, or what is returned is not examined
network_manager ==
    /\ At(DISP, "disp", "start")
    /\ \E o \in TransportOutcomes :
          stack' = [stack EXCEPT ![DISP] = SetPc(@, o)]
    /\ UNCHANGED callVars
    /\ UNCHANGED <<cfgRoute, cfgAssert, queueCreated, hook, queue, nextId, frees,
                   len, halt, enq, sent, errSends, rejected, timeouts>>

\* line 202: while (true) is entered whatever became of the transport
wifi_logger_loop ==
    /\ Running(DISP)
    /\ Top(DISP).fn = "disp"
    /\ Top(DISP).pc \in TransportOutcomes
    /\ stack' = [stack EXCEPT ![DISP] = SetPc(@, "recv")]
    /\ UNCHANGED callVars
    /\ UNCHANGED <<cfgRoute, cfgAssert, queueCreated, hook, queue, nextId, frees,
                   len, halt, enq, sent, errSends, rejected, timeouts>>

\* a dispatch task that stops sending once DegradedThreshold sends have failed
MutantReceiveDegraded ==
    /\ At(DISP, "disp", "recv")
    /\ queue # <<>>
    /\ queue' = Tail(queue)
    /\ stack' = [stack EXCEPT ![DISP] =
                    SetTop(@, IF Len(sent) + errSends >= DegradedThreshold
                              THEN "free" ELSE "send", Head(queue))]
    /\ UNCHANGED callVars
    /\ UNCHANGED <<cfgRoute, cfgAssert, queueCreated, hook, nextId, frees,
                   len, halt, enq, sent, errSends, rejected, timeouts>>

\* receive_from_queue with a record in the queue: qerror == pdPASS
receive_from_queue ==
    /\ At(DISP, "disp", "recv")
    /\ queue # <<>>
    /\ LET res == xQueueReceive(queue)
       IN /\ queue' = res.q
          /\ stack' = [stack EXCEPT ![DISP] = SetTop(@, "send", res.data)]
    /\ UNCHANGED callVars
    /\ UNCHANGED <<cfgRoute, cfgAssert, queueCreated, hook, nextId, frees,
                   len, halt, enq, sent, errSends, rejected, timeouts>>

\* receive_from_queue when the wait ends with no record: qerror == pdFALSE and
\* data was never written.  configASSERT(qerror) aborts when it is compiled in.
receive_timeout ==
    /\ At(DISP, "disp", "recv")
    /\ queue = <<>>
    /\ timeouts < MaxTimeouts
    /\ timeouts' = timeouts + 1
    /\ IF cfgAssert
       THEN /\ halt' = "assert"
            /\ UNCHANGED stack
       ELSE /\ stack' = [stack EXCEPT ![DISP] = SetTop(@, "rq_free", NULL)]
            /\ UNCHANGED halt
    /\ UNCHANGED callVars
    /\ UNCHANGED <<cfgRoute, cfgAssert, queueCreated, hook, queue, nextId, frees,
                   len, enq, sent, errSends, rejected>>

\* line 87: free((void*)data) on the uninitialised data.  The value is whatever
\* the stack slot holds: NULL, the address of a block that is or was allocated
\* (such as the record of the previous iteration), or no heap block at all.
receive_free_data ==
    /\ At(DISP, "disp", "rq_free")
    /\ \/ /\ \E p \in Allocated \cup {NULL} : frees' = free(frees, p)
          /\ stack' = [stack EXCEPT ![DISP] = SetPc(@, "rq_warn")]
          /\ UNCHANGED halt
       \/ /\ halt' = "heap_abort"
          /\ UNCHANGED <<frees, stack>>
    /\ UNCHANGED callVars
    /\ UNCHANGED <<cfgRoute, cfgAssert, queueCreated, hook, queue, nextId,
                   len, enq, sent, errSends, rejected, timeouts>>

\* lines 89-90 and 100: ESP_LOGW, data = NULL, return data
receive_warn ==
    /\ At(DISP, "disp", "rq_warn")
    /\ EspLog(DISP, "send_err")
    /\ UNCHANGED callVars
    /\ UNCHANGED <<cfgRoute, cfgAssert, queueCreated, hook, queue, frees,
                   len, enq, sent, errSends, rejected, timeouts>>

\* line 208: send_data(handle, log_message) returns the bytes sent or a failure
send_data ==
    /\ At(DISP, "disp", "send")
    /\ sent' = Append(sent, Top(DISP).rec)
    /\ len' \in {-1, 1}
    /\ stack' = [stack EXCEPT ![DISP] = SetPc(@, "free")]
    /\ UNCHANGED callVars
    /\ UNCHANGED <<cfgRoute, cfgAssert, queueCreated, hook, queue, nextId, frees,
                   halt, enq, errSends, rejected, timeouts>>

\* line 202: while (true); the pc of the next iteration, or of line 221 after
\* the loop
MutantLoopUntilSendFails == IF len >= 0 THEN "recv" ELSE "close"
NextIteration == IF TRUE THEN "recv" ELSE "close"

\* line 211: free((void*)log_message), then the loop waits again
free_log_message ==
    /\ At(DISP, "disp", "free")
    /\ frees' = free(frees, Top(DISP).rec)
    /\ stack' = [stack EXCEPT ![DISP] = SetTop(@, NextIteration, NULL)]
    /\ len' = 0
    /\ UNCHANGED callVars
    /\ UNCHANGED <<cfgRoute, cfgAssert, queueCreated, hook, queue, nextId,
                   halt, enq, sent, errSends, rejected, timeouts>>

\* lines 215-216: the fixed text is sent in place of a record
send_error_text ==
    /\ At(DISP, "disp", "send_err")
    /\ errSends' = errSends + 1
    /\ len' \in {-1, 1}
    /\ stack' = [stack EXCEPT ![DISP] = SetPc(@, "log_err")]
    /\ UNCHANGED callVars
    /\ UNCHANGED <<cfgRoute, cfgAssert, queueCreated, hook, queue, nextId, frees,
                   halt, enq, sent, rejected, timeouts>>

\* line 217: ESP_LOGE, then the loop waits again
log_unknown_error ==
    /\ At(DISP, "disp", "log_err")
    /\ EspLog(DISP, NextIteration)
    /\ len' = 0
    /\ UNCHANGED callVars
    /\ UNCHANGED <<cfgRoute, cfgAssert, queueCreated, hook, queue, frees,
                   enq, sent, errSends, rejected, timeouts>>

wifi_logger ==
    \/ network_manager
    \/ wifi_logger_loop
    \/ receive_from_queue
    \/ receive_timeout
    \/ receive_free_data
    \/ receive_warn
    \/ send_data
    \/ free_log_message
    \/ send_error_text
    \/ log_unknown_error

Next ==
    \/ init_wifi
    \/ init_queue
    \/ esp_log_set_vprintf
    \/ xTaskCreatePinnedToCore
    \/ start_wifi_logger_log
    \/ \E t \in Producers : generate_log_message(t)
    \/ \E t \in Producers : system_log_message_route(t)
    \/ \E t \in Tasks : send_to_queue(t)
    \/ \E t \in Tasks : send_to_queue_full(t)
    \/ \E t \in Tasks : route_vprintf(t)
    \/ \E t \in Tasks : Return(t)
    \/ wifi_logger

Spec == Init /\ [][Next]_vars

TypeOK ==
    /\ cfgRoute \in BOOLEAN /\ cfgAssert \in BOOLEAN
    /\ queueCreated \in BOOLEAN /\ hook \in BOOLEAN
    /\ queue \in Seq(Ids)
    /\ nextId \in 1..(Cardinality(Ids) + 1)
    /\ frees \in [Ids -> Nat]
    /\ \A t \in Tasks : Len(stack[t]) <= STACK_FRAMES
    /\ len \in {-1, 0, 1}
    /\ halt \in {"none", "boot_abort", "assert", "heap_abort", "stack_overflow"}
    /\ enq \in Seq(Ids)
    /\ sent \in Seq(Ids)
    /\ errSends \in 0..MaxTimeouts
    /\ rejected \subseteq Ids
    /\ timeouts \in 0..MaxTimeouts
    /\ cPc \in {"idle", "sprintf", "vsprintf", "enqueue", "logfail", "vprintf",
                "done", "smashed"}
    /\ cPath \in {"none", "gen", "hook"}
    /\ cHdr \in 0..MaxTextLen /\ cMsg \in 0..MaxTextLen
    /\ cBuf \in 0..(2 * MaxTextLen + 1)
    /\ cRet \in 0..MaxTextLen

\* ---- derived notions used by the properties ----
IsPrefix(s, u) == Len(s) <= Len(u) /\ SubSeq(u, 1, Len(s)) = s
NoDuplicates(s) == \A i, j \in 1..Len(s) : s[i] = s[j] => i = j
\* a call in progress still holds record r in one of its frames
Held(r) == \E t \in Tasks : \E i \in 1..Len(stack[t]) : stack[t][i].rec = r
Dequeued == Range(enq) \ Range(queue)
DispHolds(r) == stack[DISP] # <<>> /\ stack[DISP][1].rec = r
DispAboutToSend(r) == DispHolds(r) /\ stack[DISP][1].pc = "send"

\* C1: the queue never holds more than MESSAGE_QUEUE_SIZE records, whatever
\* the interleaving of enqueue attempts and receives.
C1_QueueBounded == Len(queue) <= MESSAGE_QUEUE_SIZE

C1_Witness == Len(queue) = MESSAGE_QUEUE_SIZE /\ rejected # {} /\ Len(sent) > 0

\* C2: the records passed to the transport are, in order, a prefix of the
\* accepted records: none out of order, none twice, one record per send call.
C2_SentPrefixOfEnqueued ==
    /\ IsPrefix(sent, enq)
    /\ NoDuplicates(sent)
    /\ Len(sent) + Cardinality({r \in Dequeued : DispAboutToSend(r)}) = Cardinality(Dequeued)

C2_Witness == Len(sent) >= 2 /\ Len(enq) > Len(sent)

\* C3: a record whose enqueue was rejected is released by the time the
\* producer call that created it has returned.
C3_RejectedReleased == \A r \in rejected : Held(r) \/ frees[r] >= 1

\* C4: a record the dispatch task dequeued is released exactly once, and only
\* after it was passed to the transport.
C4_ReleasedOnce ==
    \A r \in Dequeued :
        /\ frees[r] <= 1
        /\ frees[r] = 1 => r \in Range(sent)
        /\ ~DispHolds(r) => frees[r] = 1

\* C5: a receive that ends with no record returns the no-record outcome and
\* releases nothing: it neither aborts nor reaches a free of the pointer it
\* never received.
C5_TimeoutFreesNothing ==
    timeouts > 0 => (halt # "assert" /\ ~At(DISP, "disp", "rq_free"))

C7_AllDelivered ==
    Cardinality(Allocated) <= MESSAGE_QUEUE_SIZE =>
        /\ rejected = {}
        /\ ~ENABLED Next => (queue = <<>> /\ sent = enq)

\* C8: while the system runs, the enqueue attempt of any task that has reached
\* it can be taken at once, whatever the dispatch task or the transport does.
C8_ProducerNeverBlocked ==
    \A t \in Tasks : (Running(t) /\ Top(t).pc = "enqueue") => ENABLED send_to_queue(t)

C8_Witness ==
    /\ \E t \in Producers : Running(t) /\ Top(t).pc = "enqueue"
    /\ Len(queue) = MESSAGE_QUEUE_SIZE
    /\ At(DISP, "disp", "send")

\* C9: with the hook installed, the log statements of the enqueue path re-enter
\* the hook without exhausting the stack of the calling task.
C9_HookTerminates == halt # "stack_overflow"

\* C10: no error of the pipeline (queue full, receive timeout, send failure)
\* stops the system.
C10_NoFatalError == halt \in {"none", "boot_abort"}

\* ---- fair scheduling of the wifi_logger task and of start_wifi_logger ----
DispTask ==
    \/ wifi_logger
    \/ send_to_queue(DISP)
    \/ send_to_queue_full(DISP)
    \/ route_vprintf(DISP)
    \/ Return(DISP)

start_wifi_logger ==
    \/ init_wifi
    \/ init_queue
    \/ esp_log_set_vprintf
    \/ xTaskCreatePinnedToCore
    \/ start_wifi_logger_log

FairSpec == Spec /\ WF_vars(DispTask) /\ WF_vars(start_wifi_logger)

\* What does hold of C7 under fair scheduling: after at most MESSAGE_QUEUE_SIZE
\* attempts every accepted record is eventually sent, in order, and the queue
\* is empty, unless the free of line 87 aborted the program.
DeliveredUnlessHeapAbort ==
    \A k \in 0..MESSAGE_QUEUE_SIZE :
        (Cardinality(Allocated) = k) ~>
            \/ Cardinality(Allocated) # k
            \/ halt = "heap_abort"
            \/ (queue = <<>> /\ sent = enq)

\* ---- the transport fails on every send ----
FailNext ==
    \/ start_wifi_logger
    \/ \E t \in Producers : generate_log_message(t)
    \/ \E t \in Producers : system_log_message_route(t)
    \/ \E t \in Tasks : send_to_queue(t)
    \/ \E t \in Tasks : send_to_queue_full(t)
    \/ \E t \in Tasks : route_vprintf(t)
    \/ \E t \in Tasks : Return(t)
    \/ network_manager
    \/ wifi_logger_loop
    \/ receive_from_queue
    \/ receive_timeout
    \/ receive_free_data
    \/ receive_warn
    \/ send_data /\ len' = -1
    \/ free_log_message
    \/ send_error_text /\ len' = -1
    \/ log_unknown_error
FailSpec == Init /\ [][FailNext]_vars

\* every send so far failed (FailSpec): the consecutive failures
FailedSends == Len(sent) + errSends

CallRec == nextId - 1

\* sprintf / vsprintf into a buffer from offset off: the text and its NUL are
\* written whatever the size of the buffer; the result is the end of the write
sprintf(off, n) == off + n + 1
vsprintf(off, n) == off + n + 1

\* a write past the end of the buffer is undefined: the call goes on or the
\* program is corrupted
AfterWrite(end, next) == IF end > BUFFER_SIZE THEN {next, "smashed"} ELSE {next}

\* the console sink: vprintf writes the n bytes of the text and returns n
MutantConsoleSilent(c, r, n) == c
ConsoleWrite(c, r, n) == Append(c, [kind |-> "record", rec |-> r, bytes |-> n])
vprintf(n) == n

\* where the caller of send_to_queue continues: neither caller reads the result
MutantReturnOnReject(path, qerror) ==
    IF path = "gen" \/ qerror # "pdPASS" THEN "done" ELSE "vprintf"
AfterSendToQueue(path, qerror) == IF path = "gen" THEN "done" ELSE "vprintf"

CallInit ==
    /\ cfgRoute = FALSE /\ cfgAssert = TRUE
    /\ queueCreated = TRUE /\ hook = FALSE
    /\ \E k \in 0..MESSAGE_QUEUE_SIZE :
          /\ queue = [i \in 1..k |-> i]
          /\ enq = queue
          /\ nextId = k + 2
    /\ frees = [r \in Ids |-> 0]
    /\ stack = [t \in Tasks |-> <<>>]
    /\ len = 0 /\ halt = "none" /\ sent = <<>> /\ errSends = 0
    /\ rejected = {} /\ timeouts = 0
    /\ cPath \in {"gen", "hook"}
    /\ cHdr \in IF cPath = "gen" THEN 1..MaxTextLen ELSE {0}
    /\ cMsg \in 0..MaxTextLen
    /\ cPc = IF cPath = "gen" THEN "sprintf" ELSE "vsprintf"
    /\ cBuf = 0 /\ cConsole = <<>> /\ cRet = 0

\* generate_log_message, line 117: the header
format_header ==
    /\ cPc = "sprintf"
    /\ cBuf' = sprintf(0, cHdr)
    /\ cPc' \in AfterWrite(cBuf', "vsprintf")
    /\ UNCHANGED <<cPath, cHdr, cMsg, cConsole, cRet>>
    /\ UNCHANGED <<cfgRoute, cfgAssert, queueCreated, hook, queue, nextId, frees,
                   stack, len, halt, enq, sent, errSends, rejected, timeouts>>

\* generate_log_message, lines 121-122: the message after the header;
\* system_log_message_route, lines 167-168: the message at the buffer's start
format_message ==
    /\ cPc = "vsprintf"
    /\ cBuf' = vsprintf(cHdr, cMsg)
    /\ cPc' \in AfterWrite(cBuf', "enqueue")
    /\ UNCHANGED <<cPath, cHdr, cMsg, cConsole, cRet>>
    /\ UNCHANGED <<cfgRoute, cfgAssert, queueCreated, hook, queue, nextId, frees,
                   stack, len, halt, enq, sent, errSends, rejected, timeouts>>

\* send_to_queue, line 46, called from line 153 or line 170
call_send_to_queue ==
    /\ cPc = "enqueue"
    /\ LET res == xQueueSendToBack(queue, CallRec)
       IN /\ queue' = res.q
          /\ IF res.qerror = "pdPASS"
             THEN /\ enq' = Append(enq, CallRec)
                  /\ UNCHANGED rejected
                  /\ cPc' = AfterSendToQueue(cPath, res.qerror)
             ELSE /\ rejected' = rejected \cup {CallRec}
                  /\ UNCHANGED enq
                  /\ cPc' = "logfail"
    /\ UNCHANGED <<cPath, cHdr, cMsg, cBuf, cConsole, cRet>>
    /\ UNCHANGED <<cfgRoute, cfgAssert, queueCreated, hook, nextId, frees,
                   stack, len, halt, sent, errSends, timeouts>>

\* send_to_queue, lines 55-56: ESP_LOGE "Queue full" goes to the console, the
\* caller goes on
call_queue_full ==
    /\ cPc = "logfail"
    /\ cConsole' = Append(cConsole, [kind |-> "Queue full", rec |-> NULL, bytes |-> 0])
    /\ cPc' = AfterSendToQueue(cPath, "errQUEUE_FULL")
    /\ UNCHANGED <<cPath, cHdr, cMsg, cBuf, cRet>>
    /\ UNCHANGED <<cfgRoute, cfgAssert, queueCreated, hook, queue, nextId, frees,
                   stack, len, halt, enq, sent, errSends, rejected, timeouts>>

\* system_log_message_route, line 172: return vprintf(fmt, tag)
call_vprintf ==
    /\ cPc = "vprintf"
    /\ cConsole' = ConsoleWrite(cConsole, CallRec, cMsg)
    /\ cRet' = vprintf(cMsg)
    /\ cPc' = "done"
    /\ UNCHANGED <<cPath, cHdr, cMsg, cBuf>>
    /\ UNCHANGED <<cfgRoute, cfgAssert, queueCreated, hook, queue, nextId, frees,
                   stack, len, halt, enq, sent, errSends, rejected, timeouts>>

CallNext ==
    \/ format_header
    \/ format_message
    \/ call_send_to_queue
    \/ call_queue_full
    \/ call_vprintf

CallSpec == CallInit /\ [][CallNext]_vars

\* the text of the call's record is on the console
OnConsole == \E i \in 1..Len(cConsole) :
                 cConsole[i].kind = "record" /\ cConsole[i].rec = CallRec

HookEndsAtVprintf ==
    [][ \A t \in Tasks :
          (stack[t] # <<>> /\ Top(t).fn = "hook" /\ Len(stack'[t]) < Len(stack[t]))
              => (Top(t).pc = "vprintf" /\ route_vprintf(t)) ]_vars

C15_BufferNeverOverrun == cBuf <= BUFFER_SIZE

\* C14: when building or connecting the transport failed, the wifi_logger
\* task does not go on to wait on the queue.
C14_NoLoopAfterConnectFailure ==
    [][ (stack[DISP] # <<>> /\ stack[DISP][1].pc = "connect_failed") =>
            stack'[DISP][1].pc # "recv" ]_vars

\* position of the wifi_logger function itself, below any log call it makes
DispPc == stack[DISP][1].pc

BootPc ==
    IF stack[MAIN] # <<>> /\ stack[MAIN][1].fn = "start"
    THEN stack[MAIN][1].pc ELSE "returned"

\* C17: start_wifi_logger creates the queue only after init_wifi, installs the
\* hook (when routing is configured) only after the queue exists, and creates
\* the wifi_logger task only after that; no hook call and no step of the
\* wifi_logger task happens without the queue, and when init_wifi or the queue
\* creation fails neither the hook is installed nor the task created.
C17_StartupOrder ==
    /\ queueCreated => BootPc # "init_wifi"
    /\ hook => /\ queueCreated /\ cfgRoute
               /\ BootPc \notin {"init_wifi", "init_queue", "set_vprintf"}
    /\ stack[DISP] # <<>> =>
          /\ queueCreated /\ hook = cfgRoute
          /\ BootPc \notin {"init_wifi", "init_queue", "set_vprintf", "create_task"}
    /\ \A t \in Tasks : \A i \in 1..Len(stack[t]) :
          stack[t][i].fn = "hook" => queueCreated
    /\ halt = "boot_abort" => (~hook /\ stack[DISP] = <<>>)

C17_Witness ==
    /\ halt = "boot_abort"
    /\ BootPc = "init_queue"
    /\ cfgRoute /\ ~hook /\ ~queueCreated
    /\ stack[DISP] = <<>>

\* C18: the fixed error text is sent once per receive that handed over no
\* record and is never released; everything else passed to the transport is a
\* record taken from the queue; and every record released (only the
\* wifi_logger task calls free) is one it had dequeued.
C18_ReleasesOnlyDequeued ==
    /\ errSends <= timeouts
    /\ Range(sent) \subseteq Dequeued
    /\ \A r \in Allocated : frees[r] > 0 => r \in Dequeued

\* ---- ownership of a record ----
\* a producer call holds r and the queue has not accepted it
ProducerOwns(r) ==
    /\ r \notin Range(enq)
    /\ \E t \in Tasks : \E i \in 1..Len(stack[t]) :
          stack[t][i].fn \in {"gen", "hook"} /\ stack[t][i].rec = r
QueueOwns(r) == r \in Range(queue)
Owners(r) ==
    (IF ProducerOwns(r) THEN {"producer"} ELSE {})
    \cup (IF QueueOwns(r) THEN {"queue"} ELSE {})
    \cup (IF DispHolds(r) THEN {"wifi_logger"} ELSE {})

\* C19: every record that is allocated and not released has exactly one owner
\* among the producer call that created it, the queue and the wifi_logger
\* task; a record in the queue or about to be sent has not been released; and
\* once the queue accepted a record, the producer call that still names it has
\* only its console write left.
C19_SingleOwner ==
    \A r \in Allocated :
        /\ frees[r] = 0 => Cardinality(Owners(r)) = 1
        /\ (QueueOwns(r) \/ DispAboutToSend(r)) => frees[r] = 0
        /\ r \in Range(enq) =>
              \A t \in Tasks : \A i \in 1..Len(stack[t]) :
                  (stack[t][i].fn \in {"gen", "hook"} /\ stack[t][i].rec = r)
                      => stack[t][i].pc = "vprintf"

\* ---- sustained overload ----
\* the build without log routing and with configASSERT compiled in, followed
\* until one record more than LeakBound has been allocated; the queue is never
\* left empty long enough for the receive to time out
OverloadInit == Init /\ ~cfgRoute /\ cfgAssert

OverloadNext ==
    \/ start_wifi_logger
    \/ \E t \in Producers : GenerateLogMessage(t, LeakBound + 1)
    \/ \E t \in Producers : send_to_queue(t)
    \/ \E t \in Producers : send_to_queue_full(t)
    \/ \E t \in Producers : Return(t)
    \/ network_manager
    \/ wifi_logger_loop
    \/ receive_from_queue
    \/ send_data
    \/ free_log_message

OverloadSpec == OverloadInit /\ [][OverloadNext]_vars

\* C20: the records allocated and not released never number more than
\* LeakBound, the queue's capacity plus one per producer plus one.
C20_LiveRecordsBounded ==
    Cardinality({r \in Allocated : frees[r] = 0}) <= LeakBound

=============================================================================
